---- MODULE Spec2Model ----
(***************************************************************************)
(* A model of the laboratory-instrument control layer of                   *)
(* mikiAtomMines/TemperatureControl:                                       *)
(*   - GM3.query / GM3.get_instantenous_data[_t0]   (src/device_models.py) *)
(*   - SPD3303X channel set-points and limits       (src/device_models.py) *)
(*   - Oven.configure_pid / update_supply           (src/device_type.py)   *)
(*   - MCC_Device connection and identity           (src/device_type.py)   *)
(* Each subsystem has its own specification (SpecGM, SpecDecode, SpecPS,   *)
(* SpecOven, SpecMCC) over the one set of variables; a specification leaves the *)
(* variables of the other subsystems at their initial value.               *)
(*                                                                         *)
(* Representation.  Bytes are integers 0..255.  A Python hex string is a   *)
(* sequence of hex digits 0..15.  Voltages, currents are integers in       *)
(* hundredths of a volt / ampere (Scale = 100), so that Ki = 0.03 and the  *)
(* 3.3 A ceiling are exact.  None is the string "None".                    *)
(***************************************************************************)
EXTENDS Integers, Sequences, FiniteSets, TLC

VARIABLES
    \* ---- GM3.query (one call at a time: the program is single-threaded)
    gm_pc,        \* position of the running query call
    command,      \* the argument of the running call
    qry,          \* local qry: the hex command identifier, a 2-digit hex string
    r,            \* local r: the payload chunks held, a sequence of reads
    ack,          \* local ack: the last acknowledgment read ('' before any)
    error_count,  \* the module global error_count
    io,           \* the transport operations of the running call, in order
    ret,          \* what the call returned / raised
    err0,         \* error_count when the running call began (history)
    \* ---- GM3.get_instantenous_data: the decoder
    payload,      \* query_bytes, a sequence of bytes
    out,          \* what the call raised (exc) and the list it returned (value)
    dec_pc,
    \* ---- SPD3303X
    ch_voltage_limit, ch_current_limit,   \* _chN_voltage_limit, _chN_current_limit
    MAX_voltage_limit, MAX_current_limit, \* _MAX_voltage_limit, _MAX_current_limit
    dev_voltage, dev_current,             \* the instrument's live set voltage / current
    socket_up,                            \* whether the socket works
    ps_last,                              \* the last power-supply operation and its result
    \* ---- Oven
    heater, supply_channel, pid, now, sink,
    \* ---- MCC_Device
    board_number, ip4_address, port,      \* _board_number, _ip4_address, _port
    is_connected,                         \* _is_connected
    mcc_last                              \* the last MCC_Device operation and its result

gm_vars == <<gm_pc, command, qry, r, ack, error_count, io, ret, err0>>
dec_vars == <<payload, out, dec_pc>>
ps_vars == <<ch_voltage_limit, ch_current_limit, MAX_voltage_limit, MAX_current_limit,
             dev_voltage, dev_current, socket_up, ps_last>>
oven_vars == <<heater, supply_channel, pid, now, sink>>
mcc_vars == <<board_number, ip4_address, port, is_connected, mcc_last>>
vars == <<gm_vars, dec_vars, ps_vars, oven_vars, mcc_vars>>

None == "None"

(***************************************************************************)
(* Python conversions                                                      *)
(***************************************************************************)
\* bytes.hex(): two hex digits per byte, high digit first
RECURSIVE hex(_)
hex(bs) ==
    IF bs = << >> THEN << >>
    ELSE <<Head(bs) \div 16, Head(bs) % 16>> \o hex(Tail(bs))

\* bytes.fromhex(s) for a hex string of even length
RECURSIVE fromhex(_)
fromhex(s) ==
    IF Len(s) < 2 THEN << >>
    ELSE <<16 * s[1] + s[2]>> \o fromhex(SubSeq(s, 3, Len(s)))

\* int(s, 16)
RECURSIVE int16(_)
int16(s) ==
    IF s = << >> THEN 0
    ELSE 16 * int16(SubSeq(s, 1, Len(s) - 1)) + s[Len(s)]

\* s * n for a string s
RECURSIVE StrTimes(_, _)
StrTimes(s, n) == IF n = 0 THEN << >> ELSE s \o StrTimes(s, n - 1)

\* s[a:b], Python slice with 0 <= a <= b
Slice(s, a, b) == SubSeq(s, a + 1, IF b < Len(s) THEN b ELSE Len(s))

(***************************************************************************)
(* GM3.query                                                               *)
(***************************************************************************)
MaxErrors == 3    \* error_count is capped here: no further bad ack is delivered
MaxCont == 2      \* continuation cycles of one call that are not acknowledged 0x07

qry_dict_with_kill ==
    [c \in {"ID_METER_PROP", "01", "0x01"} |-> <<0, 1>>] @@
    [c \in {"ID_METER_SETT", "02", "0x02"} |-> <<0, 2>>] @@
    [c \in {"STREAM_DATA", "03", "0x03"} |-> <<0, 3>>] @@
    [c \in {"RESET_TIME", "04", "0x04", "KILL_ALL_PROCESS", "FF"} |-> <<0, 4>>]
qry_dict ==
    [c \in {"ID_METER_PROP", "01", "0x01"} |-> <<0, 1>>] @@
    [c \in {"ID_METER_SETT", "02", "0x02"} |-> <<0, 2>>] @@
    [c \in {"STREAM_DATA", "03", "0x03"} |-> <<0, 3>>] @@
    [c \in {"RESET_TIME", "04", "0x04"} |-> <<0, 4>>]

number_of_bytes_dict_swapped ==
    (<<0, 1>> :> 20) @@ (<<0, 2>> :> 20) @@ (<<0, 3>> :> 31) @@ (<<0, 4>> :> 30)
number_of_bytes_dict ==
    (<<0, 1>> :> 20) @@ (<<0, 2>> :> 20) @@ (<<0, 3>> :> 30) @@ (<<0, 4>> :> 31)

\* what a caller may pass to query
Commands == DOMAIN qry_dict \cup {"KILL_ALL_PROCESS", "FF", "05"}

\* the acknowledgment bytes the instrument may send
AckBytes == {0, 7, 8}

ACK_RECEIVED == fromhex(<<0, 8>>)    \* bytes.fromhex('08')
ACK_DONE == fromhex(<<0, 7>>)        \* bytes.fromhex('07')

\* the n-th read of a call returns the chunk n, of the number of bytes asked for
\* (a blocking port: pyserial's default timeout=None)
Chunk(n, nbytes) == [id |-> n, len |-> nbytes]

NReads == Cardinality({i \in 1..Len(io) : io[i].op = "read_payload"})

WriteEv(bytes) == [op |-> "write", data |-> bytes, n |-> Len(bytes)]
ReadEv(nbytes, chunk) == [op |-> "read_payload", data |-> chunk, n |-> nbytes]
AckEv(bytes) == [op |-> "read_ack", data |-> bytes, n |-> 1]

\* lines 50-74: the dictionary look-ups raise KeyError for an unknown command
query_call(c) ==
    /\ UNCHANGED <<dec_vars, ps_vars, oven_vars, mcc_vars>>
    /\ gm_pc = "idle"
    /\ command' = c
    /\ err0' = error_count
    /\ IF c \notin DOMAIN qry_dict
       THEN /\ gm_pc' = "raised"
            /\ ret' = "KeyError"
            /\ UNCHANGED <<qry, r, ack>>
       ELSE /\ qry' = qry_dict[c]
            /\ ack' = << >>
            /\ r' = << >>
            /\ ret' = None
            /\ gm_pc' = "write"
    /\ io' = << >>
    /\ UNCHANGED error_count

\* line 76
query_write ==
    /\ UNCHANGED <<dec_vars, ps_vars, oven_vars, mcc_vars>>
    /\ gm_pc = "write"
    /\ io' = Append(io, WriteEv(fromhex(StrTimes(qry, 6))))
    /\ gm_pc' = "read"
    /\ UNCHANGED <<command, qry, r, ack, error_count, ret, err0>>

\* line 77
query_read_accumulate ==
    /\ UNCHANGED <<dec_vars, ps_vars, oven_vars, mcc_vars>>
    /\ gm_pc = "read"
    /\ LET c == Chunk(NReads + 1, number_of_bytes_dict[qry]) IN
        /\ r' = r \o <<c>>
        /\ io' = Append(io, ReadEv(number_of_bytes_dict[qry], c))
    /\ gm_pc' = "ack"
    /\ UNCHANGED <<command, qry, ack, error_count, ret, err0>>
query_read ==
    /\ UNCHANGED <<dec_vars, ps_vars, oven_vars, mcc_vars>>
    /\ gm_pc = "read"
    /\ LET c == Chunk(NReads + 1, number_of_bytes_dict[qry]) IN
        /\ r' = <<c>>
        /\ io' = Append(io, ReadEv(number_of_bytes_dict[qry], c))
    /\ gm_pc' = "ack"
    /\ UNCHANGED <<command, qry, ack, error_count, ret, err0>>

\* where the call goes once the first loop has read the acknowledgment a:
\* lines 75, 83-86
AfterFirstAck_no_retry(a, q) ==
    IF q = <<0, 3>> \/ q = <<0, 4>> THEN "done" ELSE "cwrite"
AfterFirstAck(a, q) ==
    IF a # ACK_RECEIVED THEN "write"
    ELSE IF q = <<0, 3>> \/ q = <<0, 4>> THEN "done"
    ELSE IF a # ACK_DONE THEN "cwrite"
    ELSE "done"

\* lines 80-81: count the acknowledgments that are not 0x08
CountAck_every(a, n) == n + 1
CountAck(a, n) == IF a # ACK_RECEIVED THEN n + 1 ELSE n

\* lines 78-86
query_ack(a) ==
    /\ UNCHANGED <<dec_vars, ps_vars, oven_vars, mcc_vars>>
    /\ gm_pc = "ack"
    /\ (<<a>> # ACK_RECEIVED => error_count < MaxErrors)
    /\ ack' = <<a>>
    /\ io' = Append(io, AckEv(<<a>>))
    /\ error_count' = CountAck(<<a>>, error_count)
    /\ gm_pc' = AfterFirstAck(<<a>>, qry)
    /\ ret' = IF gm_pc' = "done" THEN r ELSE ret
    /\ UNCHANGED <<command, qry, r, err0>>

\* line 87
cont_write_command_opcode ==
    /\ UNCHANGED <<dec_vars, ps_vars, oven_vars, mcc_vars>>
    /\ gm_pc = "cwrite"
    /\ io' = Append(io, WriteEv(fromhex(StrTimes(qry, 6))))
    /\ gm_pc' = "cread"
    /\ UNCHANGED <<command, qry, r, ack, error_count, ret, err0>>
cont_write ==
    /\ UNCHANGED <<dec_vars, ps_vars, oven_vars, mcc_vars>>
    /\ gm_pc = "cwrite"
    /\ io' = Append(io, WriteEv(fromhex(StrTimes(<<0, 8>>, 6))))
    /\ gm_pc' = "cread"
    /\ UNCHANGED <<command, qry, r, ack, error_count, ret, err0>>

\* line 88
cont_read_overwrite ==
    /\ UNCHANGED <<dec_vars, ps_vars, oven_vars, mcc_vars>>
    /\ gm_pc = "cread"
    /\ LET c == Chunk(NReads + 1, number_of_bytes_dict[qry]) IN
        /\ r' = <<c>>
        /\ io' = Append(io, ReadEv(number_of_bytes_dict[qry], c))
    /\ gm_pc' = "cack"
    /\ UNCHANGED <<command, qry, ack, error_count, ret, err0>>
cont_read ==
    /\ UNCHANGED <<dec_vars, ps_vars, oven_vars, mcc_vars>>
    /\ gm_pc = "cread"
    /\ LET c == Chunk(NReads + 1, number_of_bytes_dict[qry]) IN
        /\ r' = r \o <<c>>
        /\ io' = Append(io, ReadEv(number_of_bytes_dict[qry], c))
    /\ gm_pc' = "cack"
    /\ UNCHANGED <<command, qry, ack, error_count, ret, err0>>

\* the continuation cycles of the running call that were not acknowledged 0x07
ContRetries ==
    Cardinality({i \in 1..Len(io) :
        /\ io[i].op = "read_ack"
        /\ io[i].data # ACK_DONE
        /\ \E j \in 1..(i - 1) : io[j].op = "read_ack" /\ io[j].data = ACK_RECEIVED})

\* where the call goes once the second loop has read the acknowledgment a: line 86
AfterContAck_give_up(a) == "done"
AfterContAck(a) == IF a # ACK_DONE THEN "cwrite" ELSE "done"

\* lines 89, 86, 91
cont_ack_counting(a) ==
    /\ UNCHANGED <<dec_vars, ps_vars, oven_vars, mcc_vars>>
    /\ gm_pc = "cack"
    /\ (<<a>> # ACK_DONE => ContRetries < MaxCont)
    /\ ack' = <<a>>
    /\ io' = Append(io, AckEv(<<a>>))
    /\ error_count' = CountAck(<<a>>, error_count)
    /\ gm_pc' = AfterContAck(<<a>>)
    /\ ret' = IF gm_pc' = "done" THEN r ELSE ret
    /\ UNCHANGED <<command, qry, r, err0>>
cont_ack(a) ==
    /\ UNCHANGED <<dec_vars, ps_vars, oven_vars, mcc_vars>>
    /\ gm_pc = "cack"
    /\ (<<a>> # ACK_DONE => ContRetries < MaxCont)
    /\ ack' = <<a>>
    /\ io' = Append(io, AckEv(<<a>>))
    /\ gm_pc' = AfterContAck(<<a>>)
    /\ ret' = IF gm_pc' = "done" THEN r ELSE ret
    /\ UNCHANGED <<command, qry, r, error_count, err0>>

\* the caller takes the result (or the exception); the locals are gone
query_return ==
    /\ UNCHANGED <<dec_vars, ps_vars, oven_vars, mcc_vars>>
    /\ gm_pc \in {"done", "raised"}
    /\ gm_pc' = "idle"
    /\ command' = None
    /\ err0' = error_count
    /\ qry' = None
    /\ r' = << >>
    /\ ack' = << >>
    /\ ret' = None
    /\ io' = << >>
    /\ UNCHANGED error_count

\* lines 19, 38, 81: error_count is a global of the module, not a field of a GM3
\* object: the count a program reads for any client is this one counter.  The
\* calls modelled here are those of client 1; another client, on a port of its
\* own, is given the number 2.
error_count_of(client) == error_count

\* ---- GM3.command, lines 93-107
cmd_dict ==
    [c \in {"KILL_ALL_PROCESS", "FF", "0xFF"} |-> <<15, 15>>]

\* what a caller may pass to command
CommandArgs == DOMAIN cmd_dict \cup {"STREAM_DATA"}

\* a write that the port refuses: pyserial raises SerialException, nothing is written
FailedWriteEv(bytes) == [op |-> "write_failed", data |-> bytes, n |-> 0]

\* lines 98-103: the dictionary look-up raises KeyError for an unknown command
command_call(c) ==
    /\ UNCHANGED <<dec_vars, ps_vars, oven_vars, mcc_vars>>
    /\ gm_pc = "idle"
    /\ command' = c
    /\ err0' = error_count
    /\ io' = << >>
    /\ IF c \notin DOMAIN cmd_dict
       THEN gm_pc' = "kraised" /\ ret' = "KeyError"
       ELSE gm_pc' = "kwrite" /\ ret' = None
    /\ UNCHANGED <<qry, r, ack, error_count>>

\* lines 105-107: one write, then return None; the method has no handler, so an
\* exception of the write (ok = FALSE) leaves the method with it
command_write_swallow(ok) ==
    /\ UNCHANGED <<dec_vars, ps_vars, oven_vars, mcc_vars>>
    /\ gm_pc = "kwrite"
    /\ LET bytes == fromhex(StrTimes(cmd_dict[command], 6)) IN
        io' = Append(io, IF ok THEN WriteEv(bytes) ELSE FailedWriteEv(bytes))
    /\ gm_pc' = "kdone"
    /\ ret' = None
    /\ UNCHANGED <<command, qry, r, ack, error_count, err0>>
command_write(ok) ==
    /\ UNCHANGED <<dec_vars, ps_vars, oven_vars, mcc_vars>>
    /\ gm_pc = "kwrite"
    /\ LET bytes == fromhex(StrTimes(cmd_dict[command], 6)) IN
        io' = Append(io, IF ok THEN WriteEv(bytes) ELSE FailedWriteEv(bytes))
    /\ IF ok
       THEN gm_pc' = "kdone" /\ ret' = None
       ELSE gm_pc' = "kraised" /\ ret' = "SerialException"
    /\ UNCHANGED <<command, qry, r, ack, error_count, err0>>

\* the caller takes None (or the exception)
command_return ==
    /\ UNCHANGED <<dec_vars, ps_vars, oven_vars, mcc_vars>>
    /\ gm_pc \in {"kdone", "kraised"}
    /\ gm_pc' = "idle"
    /\ command' = None
    /\ err0' = error_count
    /\ ret' = None
    /\ io' = << >>
    /\ UNCHANGED <<qry, r, ack, error_count>>

Init_GM ==
    /\ gm_pc = "idle"
    /\ command = None
    /\ err0 = 0
    /\ qry = None
    /\ r = << >>
    /\ ack = << >>
    /\ error_count = 0
    /\ io = << >>
    /\ ret = None

(***************************************************************************)
(* GM3.get_instantenous_data, GM3.get_instantenous_data_t0: the decoder    *)
(*                                                                         *)
(* A decoded measurable is sign * digits * 10 ** (-exponent), a float.  It *)
(* is kept here as the exact fraction num / den, num = sign * digits and   *)
(* den = 10 ^ exponent.                                                    *)
(***************************************************************************)
\* a & b on non-negative integers
RECURSIVE BitAnd(_, _)
BitAnd(a, b) ==
    IF a = 0 \/ b = 0 THEN 0
    ELSE (a % 2) * (b % 2) + 2 * BitAnd(a \div 2, b \div 2)

RECURSIVE Pow10(_)
Pow10(n) == IF n = 0 THEN 1 ELSE 10 * Pow10(n - 1)

\* int(len(query_string) / 2 / 6), lines 136 and 181
number_of_measurables_ceil(query_string) == (Len(query_string) + 11) \div 12
number_of_measurables(query_string) == (Len(query_string) \div 2) \div 6

\* where the section of measurable i starts in the hex string: line 139
section_stride10(measurable_i) == measurable_i * 10
section(measurable_i) == measurable_i * 12

\* the sign of a measurable from byte_2: lines 143-145
sign_mask80(byte_2) == IF BitAnd(byte_2, 128) # 0 THEN -1 ELSE 1
sign_of(byte_2) == IF BitAnd(byte_2, 8) # 0 THEN -1 ELSE 1

\* the body of the loop, lines 139-150 (and 184-195)
measurable(query_string, measurable_i) ==
    LET section_i == section(measurable_i)
        byte_2 == int16(Slice(query_string, section_i + 2, section_i + 4))
        bytes_3456 == int16(Slice(query_string, section_i + 4, section_i + 12))
        sign == sign_of(byte_2)
        digits == bytes_3456
        exponent == BitAnd(byte_2, 7)
    IN  [num |-> sign * digits, den |-> Pow10(exponent)]

\* lines 128-152, for the bytes query returned
get_instantenous_data(query_bytes) ==
    LET query_string == hex(query_bytes)
    IN  [i \in 1..number_of_measurables(query_string) |->
            measurable(query_string, i - 1)]

\* lines 173-197, for the bytes query returned
get_instantenous_data_t0_skip_first(query_bytes) ==
    LET query_string == hex(Tail(query_bytes))
    IN  [i \in 1..number_of_measurables(query_string) |->
            measurable(query_string, i - 1)]
get_instantenous_data_t0(query_bytes) ==
    LET query_string == hex(query_bytes)
    IN  [i \in 1..number_of_measurables(query_string) |->
            measurable(query_string, i - 1)]

\* ---- the payloads decoded
MaxSections == 2   \* 6-byte sections of a payload
MaxTail == 5       \* bytes after the last whole section

Byte0s == {2, 255}
Byte1s == {0, 8, 115, 250}      \* 0x00, 0x08, 0x73, 0xFA
\* bytes 2..5 of a section (the first below 0x80: the model's integers are 32-bit)
Digits == {<<0, 0, 0, 100>>, <<1, 2, 3, 4>>, <<127, 255, 255, 255>>}
Sections == {<<b0, b1>> \o d : b0 \in Byte0s, b1 \in Byte1s, d \in Digits}

\* one section with every value of byte 1
WideSections == {<<b0, b1>> \o d : b0 \in Byte0s, b1 \in 0..255, d \in Digits}

RECURSIVE SectionSeqs(_)
SectionSeqs(n) ==
    IF n = 0 THEN {<< >>}
    ELSE LET shorter == SectionSeqs(n - 1)
         IN  shorter \cup {s \o p : s \in Sections,
                                    p \in {q \in shorter : Len(q) = 6 * (n - 1)}}

TailBytes(k) == [i \in 1..k |-> (37 * i + 8) % 256]

Payloads ==
    {p \o TailBytes(k) : p \in SectionSeqs(MaxSections), k \in 0..MaxTail}
        \cup WideSections

Decode ==
    /\ UNCHANGED <<gm_vars, ps_vars, oven_vars, mcc_vars>>
    /\ dec_pc = "idle"
    /\ out' = [exc |-> None, value |-> get_instantenous_data(payload)]
    /\ dec_pc' = "returned"
    /\ UNCHANGED payload

Decode_t0 ==
    /\ UNCHANGED <<gm_vars, ps_vars, oven_vars, mcc_vars>>
    /\ dec_pc = "idle"
    /\ out' = [exc |-> None, value |-> get_instantenous_data_t0(payload)]
    /\ dec_pc' = "returned_t0"
    /\ UNCHANGED payload

Init_Dec ==
    /\ payload \in Payloads
    /\ out = [exc |-> None, value |-> << >>]
    /\ dec_pc = "idle"

\* ---- the payloads query('RESET_TIME') returns: number_of_bytes_dict['04'] = 31
\* bytes (lines 66-72, 77, 84), here five sections and one more byte
ResetSections ==
    {<<2, 0, 0, 0, 0, 100>>, <<255, 250, 1, 2, 3, 4>>, <<2, 115, 127, 255, 255, 255>>}

LastBytes == {0, 8, 255}

ResetPayloads ==
    {s1 \o s2 \o s3 \o s4 \o s5 \o <<b>> :
        s1 \in ResetSections, s2 \in ResetSections, s3 \in ResetSections,
        s4 \in ResetSections, s5 \in ResetSections, b \in LastBytes}

Init_Reset ==
    /\ payload \in ResetPayloads
    /\ out = [exc |-> None, value |-> << >>]
    /\ dec_pc = "idle"

(***************************************************************************)
(* SPD3303X: channel set-points and channel limits                         *)
(*                                                                         *)
(* The instrument keeps a set voltage and a set current per channel        *)
(* (dev_voltage, dev_current); 'CHn:voltage v' stores v, 'CHn:voltage?'    *)
(* answers with it as text.  A Python value that a comparison reads is     *)
(* kept with its type: the text the socket returns is a str, never a       *)
(* number.                                                                 *)
(***************************************************************************)
V(x) == 100 * x    \* x volts (amperes), in hundredths

\* lines 285-294: the reply the socket gives, decoded: a str; None once sendall or
\* recv has raised OSError (which _query catches and prints)
ps_query(value) ==
    IF socket_up THEN [type |-> "str", val |-> value]
    ELSE [type |-> "NoneType", val |-> 0]

\* x < y in Python for a number x: defined for numbers only
PyLess(x, y) ==
    IF y.type \in {"int", "float"}
    THEN (IF x < y.val THEN "True" ELSE "False")
    ELSE "TypeError"

\* what an operation of the power supply did, for its caller and on the wire
Result(op, ch, arg, printed, raised, sent) ==
    [op |-> op, ch |-> ch, arg |-> arg, printed |-> printed, raised |-> raised,
     sent |-> sent]

Cmd(what, ch, val) == [cmd |-> what, ch |-> ch, val |-> val]

\* lines 319-326: _command sends, or prints 'ERROR: Socket not found' on OSError
SentBy(c) == IF socket_up THEN <<c>> ELSE << >>
PrintedBy_command == IF socket_up THEN None ELSE "ERROR: Socket not found"

\* ---- set voltage, set current (lines 467-505)
ch1_set_voltage(volts) ==
    /\ UNCHANGED <<gm_vars, dec_vars, oven_vars, mcc_vars>>
    /\ IF volts <= ch_voltage_limit[1]
       THEN /\ dev_voltage' =
                    IF socket_up THEN [dev_voltage EXCEPT ![1] = volts] ELSE dev_voltage
            /\ ps_last' = Result("set_voltage", 1, volts, PrintedBy_command, None,
                                 SentBy(Cmd("voltage", 1, volts)))
       ELSE /\ UNCHANGED dev_voltage
            /\ ps_last' = Result("set_voltage", 1, volts, "CH1 voltage not set", None, << >>)
    /\ UNCHANGED <<ch_voltage_limit, ch_current_limit, MAX_voltage_limit,
                   MAX_current_limit, dev_current, socket_up>>

ch2_set_voltage_unchecked(volts) ==
    /\ UNCHANGED <<gm_vars, dec_vars, oven_vars, mcc_vars>>
    /\ dev_voltage' =
            IF socket_up THEN [dev_voltage EXCEPT ![2] = volts] ELSE dev_voltage
    /\ ps_last' = Result("set_voltage", 2, volts, PrintedBy_command, None,
                         SentBy(Cmd("voltage", 2, volts)))
    /\ UNCHANGED <<ch_voltage_limit, ch_current_limit, MAX_voltage_limit,
                   MAX_current_limit, dev_current, socket_up>>
ch2_set_voltage(volts) ==
    /\ UNCHANGED <<gm_vars, dec_vars, oven_vars, mcc_vars>>
    /\ IF volts <= ch_voltage_limit[2]
       THEN /\ dev_voltage' =
                    IF socket_up THEN [dev_voltage EXCEPT ![2] = volts] ELSE dev_voltage
            /\ ps_last' = Result("set_voltage", 2, volts, PrintedBy_command, None,
                                 SentBy(Cmd("voltage", 2, volts)))
       ELSE /\ UNCHANGED dev_voltage
            /\ ps_last' = Result("set_voltage", 2, volts, "CH2 voltage not set", None, << >>)
    /\ UNCHANGED <<ch_voltage_limit, ch_current_limit, MAX_voltage_limit,
                   MAX_current_limit, dev_current, socket_up>>

ch1_set_current(amps) ==
    /\ UNCHANGED <<gm_vars, dec_vars, oven_vars, mcc_vars>>
    /\ IF amps <= ch_current_limit[1]
       THEN /\ dev_current' =
                    IF socket_up THEN [dev_current EXCEPT ![1] = amps] ELSE dev_current
            /\ ps_last' = Result("set_current", 1, amps, PrintedBy_command, None,
                                 SentBy(Cmd("current", 1, amps)))
       ELSE /\ UNCHANGED dev_current
            /\ ps_last' = Result("set_current", 1, amps, "CH1 current not set", None, << >>)
    /\ UNCHANGED <<ch_voltage_limit, ch_current_limit, MAX_voltage_limit,
                   MAX_current_limit, dev_voltage, socket_up>>

ch2_set_current(amps) ==
    /\ UNCHANGED <<gm_vars, dec_vars, oven_vars, mcc_vars>>
    /\ IF amps <= ch_current_limit[2]
       THEN /\ dev_current' =
                    IF socket_up THEN [dev_current EXCEPT ![2] = amps] ELSE dev_current
            /\ ps_last' = Result("set_current", 2, amps, PrintedBy_command, None,
                                 SentBy(Cmd("current", 2, amps)))
       ELSE /\ UNCHANGED dev_current
            /\ ps_last' = Result("set_current", 2, amps, "CH2 current not set", None, << >>)
    /\ UNCHANGED <<ch_voltage_limit, ch_current_limit, MAX_voltage_limit,
                   MAX_current_limit, dev_voltage, socket_up>>

\* ---- channel limits (lines 514-556)
\* the first test of a limit setter: lines 516, 527, 538, 549
NotAllowed_no_floor(x, MAX) == x > MAX
NotAllowed(x, MAX) == x > MAX \/ x <= 0

\* what a limit setter prints when the socket is down: _query's message
PrintedBy_query == IF socket_up THEN None ELSE "ERROR: Socket not found"

\* The comparison of the new limit with what chN_set_voltage / chN_set_current
\* returned (lines 519, 530, 541, 552) and what follows from it; qch is the
\* channel whose set value is read, live that value in the instrument, target the
\* channel whose limit the last branch assigns.
LimitSetter(kind, ch, x, MAX, qch, live, limits, target) ==
    IF NotAllowed(x, MAX)
    THEN [limits |-> limits,
          res |-> Result(kind, ch, x, "limit is not allowed by the power supply",
                         None, << >>)]
    ELSE LET less == PyLess(x, ps_query(live))
             asked == SentBy(Cmd(IF kind = "voltage_limit" THEN "voltage?" ELSE "current?",
                                 qch, 0))
         IN  IF less = "TypeError"
             THEN [limits |-> limits,
                   res |-> Result(kind, ch, x, PrintedBy_query, "TypeError", asked)]
             ELSE IF less = "True"
             THEN [limits |-> limits,
                   res |-> Result(kind, ch, x, "limit is lower than present value",
                                  None, asked)]
             ELSE [limits |-> [limits EXCEPT ![target] = x],
                   res |-> Result(kind, ch, x, None, None, asked)]

\* lines 514-523
ch1_voltage_limit(volts) ==
    /\ UNCHANGED <<gm_vars, dec_vars, oven_vars, mcc_vars>>
    /\ LET s == LimitSetter("voltage_limit", 1, volts, MAX_voltage_limit,
                            1, dev_voltage[1], ch_voltage_limit, 1) IN
        /\ ch_voltage_limit' = s.limits
        /\ ps_last' = s.res
    /\ UNCHANGED <<ch_current_limit, MAX_voltage_limit, MAX_current_limit,
                   dev_voltage, dev_current, socket_up>>

\* lines 536-545: the last branch assigns _ch1_voltage_limit
ch2_voltage_limit(volts) ==
    /\ UNCHANGED <<gm_vars, dec_vars, oven_vars, mcc_vars>>
    /\ LET s == LimitSetter("voltage_limit", 2, volts, MAX_voltage_limit,
                            2, dev_voltage[2], ch_voltage_limit, 1) IN
        /\ ch_voltage_limit' = s.limits
        /\ ps_last' = s.res
    /\ UNCHANGED <<ch_current_limit, MAX_voltage_limit, MAX_current_limit,
                   dev_voltage, dev_current, socket_up>>

\* lines 525-534
ch1_current_limit(amps) ==
    /\ UNCHANGED <<gm_vars, dec_vars, oven_vars, mcc_vars>>
    /\ LET s == LimitSetter("current_limit", 1, amps, MAX_current_limit,
                            1, dev_current[1], ch_current_limit, 1) IN
        /\ ch_current_limit' = s.limits
        /\ ps_last' = s.res
    /\ UNCHANGED <<ch_voltage_limit, MAX_voltage_limit, MAX_current_limit,
                   dev_voltage, dev_current, socket_up>>

\* lines 547-556: the comparison reads ch1_set_current
ch2_current_limit(amps) ==
    /\ UNCHANGED <<gm_vars, dec_vars, oven_vars, mcc_vars>>
    /\ LET s == LimitSetter("current_limit", 2, amps, MAX_current_limit,
                            1, dev_current[1], ch_current_limit, 2) IN
        /\ ch_current_limit' = s.limits
        /\ ps_last' = s.res
    /\ UNCHANGED <<ch_voltage_limit, MAX_voltage_limit, MAX_current_limit,
                   dev_voltage, dev_current, socket_up>>

\* ---- PowerSupply.MAX_voltage_limit, MAX_current_limit setters
\* (src/device_type.py lines 121-131), which SPD3303X inherits
set_MAX_voltage_limit(new_MAX_voltage) ==
    /\ UNCHANGED <<gm_vars, dec_vars, oven_vars, mcc_vars>>
    /\ MAX_voltage_limit' = new_MAX_voltage
    /\ ps_last' = Result("MAX_voltage_limit", 0, new_MAX_voltage, "CAUTION", None, << >>)
    /\ UNCHANGED <<ch_voltage_limit, ch_current_limit, MAX_current_limit,
                   dev_voltage, dev_current, socket_up>>

\* line 131 assigns _MAX_voltage_limit
set_MAX_current_limit(new_MAX_current) ==
    /\ UNCHANGED <<gm_vars, dec_vars, oven_vars, mcc_vars>>
    /\ MAX_voltage_limit' = new_MAX_current
    /\ ps_last' = Result("MAX_current_limit", 0, new_MAX_current, "CAUTION", None, << >>)
    /\ UNCHANGED <<ch_voltage_limit, ch_current_limit, MAX_current_limit,
                   dev_voltage, dev_current, socket_up>>

\* ---- the socket: it may fail at any time; connect() opens a new one
\* (src/connection_type.py lines 56-66)
socket_fails ==
    /\ UNCHANGED <<gm_vars, dec_vars, oven_vars, mcc_vars>>
    /\ socket_up
    /\ socket_up' = FALSE
    /\ UNCHANGED <<ch_voltage_limit, ch_current_limit, MAX_voltage_limit,
                   MAX_current_limit, dev_voltage, dev_current, ps_last>>

connect ==
    /\ UNCHANGED <<gm_vars, dec_vars, oven_vars, mcc_vars>>
    /\ ~socket_up
    /\ socket_up' = TRUE
    /\ ps_last' = Result("connect", 0, 0, None, None, << >>)
    /\ UNCHANGED <<ch_voltage_limit, ch_current_limit, MAX_voltage_limit,
                   MAX_current_limit, dev_voltage, dev_current>>

\* ---- the arguments tried
VoltArgs == {V(0), V(10), V(40)}
AmpArgs == {V(1), V(4)}
LimitVoltArgs == {V(-5), V(0), V(5), V(20), V(40)}
LimitAmpArgs == {V(0), 50, V(2), V(4)}
MAXArgs == {V(5), V(50)}

\* SPD3303X.__init__ (lines 221-266): the limits are taken as given; connect();
\* with reset_on_startup, reset_channels() sets both set voltages to 0 (lines
\* 296-301), otherwise the instrument keeps the set voltages it had.  The set
\* currents are those the instrument had.
Init_PS ==
    /\ ch_voltage_limit \in {V(20), V(32), V(40)} \X {V(20), V(32), V(40)}
    /\ ch_current_limit = <<330, 330>>
    /\ MAX_voltage_limit = V(32)
    /\ MAX_current_limit = 330
    /\ \E reset_on_startup \in BOOLEAN :
            IF reset_on_startup THEN dev_voltage = <<V(0), V(0)>>
            ELSE dev_voltage = <<V(10), V(10)>>
    /\ dev_current = <<330, V(1)>>
    /\ socket_up = TRUE
    /\ ps_last = Result("__init__", 0, 0, None, None, << >>)

(***************************************************************************)
(* Oven (src/device_type.py lines 845-1016)                                *)
(*                                                                         *)
(* The oven drives a power supply through the generic interface            *)
(* get_voltage_limit(ch), set_set_voltage(channel, volts),                 *)
(* set_channel_voltage_limit(channel, volts).  PowerSupply holds only      *)
(* placeholders for them ("for each model of power supply, this method has *)
(* to be re-writen") and no class of src/ defines them, so they are        *)
(* modelled from section 4.4 of the specification, on the variables        *)
(* ch_voltage_limit and dev_voltage.  The PID object is simple_pid.PID, a  *)
(* library outside the repository: its step is modelled from section 4.5   *)
(* and the library's documented behaviour.                                 *)
(*                                                                         *)
(* Temperatures are whole degrees, times whole seconds.  With Kp = 1 and   *)
(* Ki = 0.03 the proportional term of an error e is 100 e hundredths of a  *)
(* volt and the integral grows by 3 e dt hundredths.  Kd = 0: the          *)
(* derivative term is 0.                                                   *)
(***************************************************************************)
MaxTime == 4       \* the clock stops here

Min(a, b) == IF a < b THEN a ELSE b
clamp(x, lo, hi) == IF x > hi THEN hi ELSE IF x < lo THEN lo ELSE x

\* ---- the power sink (section 4.4)
get_voltage_limit(ch) == ch_voltage_limit[ch]

\* rejected, as a no-op, if volts exceeds the channel's limit
set_set_voltage(channel, volts) ==
    IF volts <= ch_voltage_limit[channel]
    THEN [dev_voltage EXCEPT ![channel] = volts]
    ELSE dev_voltage

\* rejected above the hardware maximum, at or below 0, and below the live set voltage
set_channel_voltage_limit(channel, volts) ==
    /\ UNCHANGED <<gm_vars, dec_vars, mcc_vars>>
    /\ ch_voltage_limit' =
            IF volts > MAX_voltage_limit \/ volts <= 0 \/ volts < dev_voltage[channel]
            THEN ch_voltage_limit
            ELSE [ch_voltage_limit EXCEPT ![channel] = volts]
    /\ UNCHANGED <<ch_current_limit, MAX_voltage_limit, MAX_current_limit,
                   dev_voltage, dev_current, socket_up, ps_last>>
    /\ UNCHANGED <<heater, supply_channel, pid, now, sink>>

\* ---- Oven.configure_pid, lines 896-913
configure_pid_sample_time_0(h, ch) ==
    [Kp |-> 100, Ki |-> 3, Kd |-> 0, setpoint |-> 0, sample_time |-> 0,
     out_min |-> 0, out_max |-> Min(h.MAX_volts, get_voltage_limit(ch)),
     integral |-> 0, last_output |-> << >>, last_input |-> << >>, last_time |-> 0]
configure_pid(h, ch) ==
    [Kp |-> 100, Ki |-> 3, Kd |-> 0, setpoint |-> 0, sample_time |-> 2,
     out_min |-> 0, out_max |-> Min(h.MAX_volts, get_voltage_limit(ch)),
     integral |-> 0, last_output |-> << >>, last_input |-> << >>, last_time |-> 0]

\* ---- simple_pid.PID.__call__ (section 4.5): the state after a step on input_ at
\* time t; the output is last_output of the result.  Within sample_time of the
\* last step, and once an output exists, nothing changes.  last_output is << >>
\* for the library's None and <<v>> for the output v, and so is last_input.  A dt of 0 is taken by
\* the library as 1e-16: the integral does not move.
pid_step(p, input_, t) ==
    LET dt == t - p.last_time IN
    IF dt < p.sample_time /\ p.last_output # << >> THEN p
    ELSE LET error == p.setpoint - input_
             integral == clamp(p.integral + p.Ki * error * dt, p.out_min, p.out_max)
             output == clamp(p.Kp * error + integral, p.out_min, p.out_max)
         IN  [p EXCEPT !.integral = integral, !.last_output = <<output>>,
                        !.last_input = <<input_>>, !.last_time = t]

\* ---- Oven.set_temperature setter, lines 980-985
set_temperature_unchecked(new_temp) ==
    /\ UNCHANGED <<gm_vars, dec_vars, ps_vars, mcc_vars>>
    /\ pid' = [pid EXCEPT !.setpoint = new_temp]
    /\ sink' = << >>
    /\ UNCHANGED <<heater, supply_channel, now>>
set_temperature(new_temp) ==
    /\ UNCHANGED <<gm_vars, dec_vars, ps_vars, mcc_vars>>
    /\ IF heater.MAX_temp < new_temp
       THEN /\ sink' = <<[ev |-> "raise", val |-> "ValueError"]>>
            /\ UNCHANGED pid
       ELSE /\ pid' = [pid EXCEPT !.setpoint = new_temp]
            /\ sink' = << >>
    /\ UNCHANGED <<heater, supply_channel, now>>

\* ---- Oven.update_supply, lines 1006-1016, with current_temp (lines 999-1001)
\* reading temp from the DAQ channel; sink' is what the call did, in order
update_supply_returns_reading(temp) ==
    /\ UNCHANGED <<gm_vars, dec_vars, mcc_vars>>
    /\ LET ch == supply_channel
           stepped == pid_step(pid, temp, now)
           new_ps_voltage == stepped.last_output[1]
       IN  /\ pid' = stepped
           /\ dev_voltage' = set_set_voltage(ch, new_ps_voltage)
           /\ sink' = <<[ev |-> "get_temp", val |-> temp, at |-> now],
                        [ev |-> "set_set_voltage", ch |-> ch, val |-> new_ps_voltage,
                         limit |-> get_voltage_limit(ch)],
                        [ev |-> "return", val |-> temp]>>
    /\ UNCHANGED <<ch_voltage_limit, ch_current_limit, MAX_voltage_limit,
                   MAX_current_limit, dev_current, socket_up, ps_last>>
    /\ UNCHANGED <<heater, supply_channel, now>>
update_supply(temp) ==
    /\ UNCHANGED <<gm_vars, dec_vars, mcc_vars>>
    /\ LET ch == supply_channel
           stepped == pid_step(pid, temp, now)
           new_ps_voltage == stepped.last_output[1]
       IN  /\ pid' = stepped
           /\ dev_voltage' = set_set_voltage(ch, new_ps_voltage)
           /\ sink' = <<[ev |-> "get_temp", val |-> temp, at |-> now],
                        [ev |-> "set_set_voltage", ch |-> ch, val |-> new_ps_voltage,
                         limit |-> get_voltage_limit(ch)],
                        [ev |-> "return", val |-> new_ps_voltage]>>
    /\ UNCHANGED <<ch_voltage_limit, ch_current_limit, MAX_voltage_limit,
                   MAX_current_limit, dev_current, socket_up, ps_last>>
    /\ UNCHANGED <<heater, supply_channel, now>>

\* ---- time passes
clock ==
    /\ UNCHANGED <<gm_vars, dec_vars, ps_vars, mcc_vars>>
    /\ now < MaxTime
    /\ now' = now + 1
    /\ UNCHANGED <<heater, supply_channel, pid, sink>>

\* ---- the values tried
Temps == {20, 60}
SetTemps == {50, 200}
OvenLimitArgs == {V(10), V(40)}

\* Oven.__init__ (lines 885-894) over a supply with its set voltages at 0
Init_Oven ==
    /\ heater \in [MAX_temp : {100, 9999}, MAX_volts : {V(24), V(9999)}]
    /\ supply_channel \in {1, 2}
    /\ pid = configure_pid(heater, supply_channel)
    /\ now = 0
    /\ sink = << >>

Init_OvenPS ==
    /\ ch_voltage_limit \in {V(20), V(32)} \X {V(20), V(32)}
    /\ ch_current_limit = <<330, 330>>
    /\ MAX_voltage_limit = V(32)
    /\ MAX_current_limit = 330
    /\ dev_voltage = <<V(0), V(0)>>
    /\ dev_current = <<V(0), V(0)>>
    /\ socket_up = TRUE
    /\ ps_last = Result("__init__", 0, 0, None, None, << >>)

(***************************************************************************)
(* Placeholders of the other subsystems (filled in below)                  *)
(***************************************************************************)
(***************************************************************************)
(* MCC_Device, src/device_type.py lines 209-303                            *)
(***************************************************************************)
\* an optional port: << >> is None, <<p>> is the port p
BoardNumbers == {0, 1}
Ips == {"192.168.0.2", "192.168.0.3"}
Ports == {<<49152>>, <<54211>>}

McResult(op, arg, raised) == [op |-> op, arg |-> arg, raised |-> raised]

\* lines 251-262: TypeError without any address; then the calls of the Universal
\* Library, which either succeed (ok) or raise ULError before line 262
MCC_Device_connect(ip, p, ok) ==
    /\ UNCHANGED <<gm_vars, dec_vars, ps_vars, oven_vars>>
    /\ IF ip4_address = None /\ ip = None
       THEN /\ mcc_last' = McResult("connect", <<ip, p>>, "TypeError")
            /\ UNCHANGED is_connected
       ELSE IF ok
       THEN /\ mcc_last' = McResult("connect", <<ip, p>>, None)
            /\ is_connected' = TRUE
       ELSE /\ mcc_last' = McResult("connect", <<ip, p>>, "ULError")
            /\ UNCHANGED is_connected
    /\ UNCHANGED <<board_number, ip4_address, port>>

\* lines 264-266: release_daq_device either succeeds (ok) or raises ULError
MCC_Device_disconnect(ok) ==
    /\ UNCHANGED <<gm_vars, dec_vars, ps_vars, oven_vars>>
    /\ IF ok
       THEN /\ mcc_last' = McResult("disconnect", << >>, None)
            /\ is_connected' = FALSE
       ELSE /\ mcc_last' = McResult("disconnect", << >>, "ULError")
            /\ UNCHANGED is_connected
    /\ UNCHANGED <<board_number, ip4_address, port>>

\* lines 276-281
set_board_number(new_num) ==
    /\ UNCHANGED <<gm_vars, dec_vars, ps_vars, oven_vars>>
    /\ IF ~is_connected
       THEN /\ board_number' = new_num
            /\ mcc_last' = McResult("board_number", new_num, None)
       ELSE /\ UNCHANGED board_number
            /\ mcc_last' = McResult("board_number", new_num, "AttributeError")
    /\ UNCHANGED <<ip4_address, port, is_connected>>

\* lines 287-292
set_ip4_address(new_ip) ==
    /\ UNCHANGED <<gm_vars, dec_vars, ps_vars, oven_vars>>
    /\ IF ~is_connected
       THEN /\ ip4_address' = new_ip
            /\ mcc_last' = McResult("ip4_address", new_ip, None)
       ELSE /\ UNCHANGED ip4_address
            /\ mcc_last' = McResult("ip4_address", new_ip, "AttributeError")
    /\ UNCHANGED <<board_number, port, is_connected>>

\* lines 298-303
set_port_unguarded(new_port) ==
    /\ UNCHANGED <<gm_vars, dec_vars, ps_vars, oven_vars>>
    /\ port' = new_port
    /\ mcc_last' = McResult("port", new_port, None)
    /\ UNCHANGED <<board_number, ip4_address, is_connected>>
set_port(new_port) ==
    /\ UNCHANGED <<gm_vars, dec_vars, ps_vars, oven_vars>>
    /\ IF ~is_connected
       THEN /\ port' = new_port
            /\ mcc_last' = McResult("port", new_port, None)
       ELSE /\ UNCHANGED port
            /\ mcc_last' = McResult("port", new_port, "AttributeError")
    /\ UNCHANGED <<board_number, ip4_address, is_connected>>

\* lines 236-246: the constructor connects exactly when it is given an address
Init_MCC ==
    /\ board_number \in BoardNumbers
    /\ ip4_address \in Ips \cup {None}
    /\ port \in Ports \cup {<< >>}
    /\ is_connected = (ip4_address # None)
    /\ mcc_last = McResult("None", << >>, None)

Init_Dec0 ==
    /\ payload = << >>
    /\ out = [exc |-> None, value |-> << >>]
    /\ dec_pc = "idle"

Init_PS0 ==
    /\ ch_voltage_limit = <<0, 0>>
    /\ ch_current_limit = <<0, 0>>
    /\ MAX_voltage_limit = 0
    /\ MAX_current_limit = 0
    /\ dev_voltage = <<0, 0>>
    /\ dev_current = <<0, 0>>
    /\ socket_up = TRUE
    /\ ps_last = Result("None", 0, 0, None, None, << >>)

Init_Oven0 ==
    /\ heater = None
    /\ supply_channel = 1
    /\ pid = None
    /\ now = 0
    /\ sink = << >>

Init_MCC0 ==
    /\ board_number = 0
    /\ ip4_address = None
    /\ port = << >>
    /\ is_connected = FALSE
    /\ mcc_last = McResult("None", << >>, None)

(***************************************************************************)
(* Specification of the gaussmeter protocol                                *)
(***************************************************************************)
InitGM == Init_GM /\ Init_Dec0 /\ Init_PS0 /\ Init_Oven0 /\ Init_MCC0

NextGM ==
    \/ \E c \in Commands : query_call(c)
    \/ query_write
    \/ query_read
    \/ \E a \in AckBytes : query_ack(a)
    \/ cont_write
    \/ cont_read
    \/ \E a \in AckBytes : cont_ack(a)
    \/ query_return

SpecGM == InitGM /\ [][NextGM]_vars

(***************************************************************************)
(* Specification of the gaussmeter client with GM3.command                 *)
(***************************************************************************)
NextCommand ==
    \/ \E c \in Commands : query_call(c)
    \/ query_write
    \/ query_read
    \/ \E a \in AckBytes : query_ack(a)
    \/ cont_write
    \/ cont_read
    \/ \E a \in AckBytes : cont_ack(a)
    \/ query_return
    \/ \E c \in CommandArgs : command_call(c)
    \/ \E ok \in BOOLEAN : command_write(ok)
    \/ command_return

SpecCommand == InitGM /\ [][NextCommand]_vars

(***************************************************************************)
(* Specification of the decoder: every payload of Payloads, decoded        *)
(***************************************************************************)
InitDecode == Init_GM /\ Init_Dec /\ Init_PS0 /\ Init_Oven0 /\ Init_MCC0

NextDecode ==
    \/ Decode
    \/ Decode_t0

SpecDecode == InitDecode /\ [][NextDecode]_vars

(***************************************************************************)
(* Specification of the decoder on the payloads of RESET_TIME              *)
(***************************************************************************)
InitReset == Init_GM /\ Init_Reset /\ Init_PS0 /\ Init_Oven0 /\ Init_MCC0

SpecReset == InitReset /\ [][NextDecode]_vars

(***************************************************************************)
(* Specification of the SPD3303X power supply                              *)
(***************************************************************************)
InitPS == Init_GM /\ Init_Dec0 /\ Init_PS /\ Init_Oven0 /\ Init_MCC0

NextPS ==
    \/ \E volts \in VoltArgs : ch1_set_voltage(volts)
    \/ \E volts \in VoltArgs : ch2_set_voltage(volts)
    \/ \E amps \in AmpArgs : ch1_set_current(amps)
    \/ \E amps \in AmpArgs : ch2_set_current(amps)
    \/ \E volts \in LimitVoltArgs : ch1_voltage_limit(volts)
    \/ \E volts \in LimitVoltArgs : ch2_voltage_limit(volts)
    \/ \E amps \in LimitAmpArgs : ch1_current_limit(amps)
    \/ \E amps \in LimitAmpArgs : ch2_current_limit(amps)
    \/ \E x \in MAXArgs : set_MAX_voltage_limit(x)
    \/ \E x \in MAXArgs : set_MAX_current_limit(x)
    \/ socket_fails
    \/ connect

SpecPS == InitPS /\ [][NextPS]_vars

(***************************************************************************)
(* Specification of the oven                                               *)
(***************************************************************************)
InitOven == Init_GM /\ Init_Dec0 /\ Init_OvenPS /\ Init_Oven /\ Init_MCC0

NextOven ==
    \/ \E new_temp \in SetTemps : set_temperature(new_temp)
    \/ \E temp \in Temps : update_supply(temp)
    \/ \E ch \in {1, 2}, volts \in OvenLimitArgs : set_channel_voltage_limit(ch, volts)
    \/ clock

SpecOven == InitOven /\ [][NextOven]_vars

(***************************************************************************)
(* Specification of the MCC_Device                                         *)
(***************************************************************************)
InitMCC == Init_GM /\ Init_Dec0 /\ Init_PS0 /\ Init_Oven0 /\ Init_MCC

NextMCC ==
    \/ \E ip \in Ips \cup {None}, p \in Ports, ok \in BOOLEAN : MCC_Device_connect(ip, p, ok)
    \/ \E ok \in BOOLEAN : MCC_Device_disconnect(ok)
    \/ \E new_num \in BoardNumbers : set_board_number(new_num)
    \/ \E new_ip \in Ips \cup {None} : set_ip4_address(new_ip)
    \/ \E new_port \in Ports \cup {<< >>} : set_port(new_port)

SpecMCC == InitMCC /\ [][NextMCC]_vars


(***************************************************************************)
(* Properties of GM3.query                                                 *)
(***************************************************************************)
Rep6(b) == <<b, b, b, b, b, b>>

IdentifyProperties == {"ID_METER_PROP", "01", "0x01"}
IdentifySettings == {"ID_METER_SETT", "02", "0x02"}
StreamData == {"STREAM_DATA", "03", "0x03"}
ResetTime == {"RESET_TIME", "04", "0x04"}
SingleShot == StreamData \cup ResetTime
MultiPart == IdentifyProperties \cup IdentifySettings
ClosedSet == SingleShot \cup MultiPart

Opcode(c) ==
    IF c \in IdentifyProperties THEN 1
    ELSE IF c \in IdentifySettings THEN 2
    ELSE IF c \in StreamData THEN 3
    ELSE 4

FirstPhase == {"write", "read", "ack"}
InCall == {"write", "read", "ack", "cwrite", "cread", "cack"}

AckIdx == {i \in 1..Len(io) : io[i].op = "read_ack"}
WriteIdx == {i \in 1..Len(io) : io[i].op = "write"}
BadAckIdx == {i \in AckIdx : io[i].data # <<8>>}
\* the acknowledgments 0x08 read by the running call
GoodAckIdx == {i \in AckIdx : io[i].data = <<8>>}
FirstGoodAck == CHOOSE i \in GoodAckIdx : \A j \in GoodAckIdx : i <= j

\* the chunks read at positions i.. of io, in order
RECURSIVE ChunksFrom(_)
ChunksFrom(i) ==
    IF i > Len(io) THEN << >>
    ELSE (IF io[i].op = "read_payload" THEN <<io[i].data>> ELSE << >>)
            \o ChunksFrom(i + 1)

\* C2: query('STREAM_DATA') writes the opcode, reads 30 bytes and reads one
\* acknowledgment; if that acknowledgment is 0x08 the call is over after this one
\* cycle and returns the payload read; if it is not, the call is back in its first
\* loop and its next transport operation is a second write of the same opcode.
C2_StreamDataOneCycle ==
    command \in StreamData =>
        /\ Len(io) >= 1 => io[1] = WriteEv(Rep6(3))
        /\ Len(io) >= 2 => io[2].op = "read_payload" /\ io[2].n = 30
        /\ Len(io) >= 3 => io[3].op = "read_ack" /\ io[3].n = 1
        /\ Len(io) < 3 => gm_pc \in FirstPhase
        /\ (Len(io) >= 3 /\ io[3].data = <<8>>) =>
                /\ Len(io) = 3
                /\ gm_pc = "done"
                /\ ret = <<io[2].data>>
        /\ (Len(io) >= 3 /\ io[3].data # <<8>>) =>
                /\ Len(io) <= 5 => gm_pc \in FirstPhase
                /\ Len(io) = 3 => gm_pc = "write"
                /\ Len(io) >= 4 => io[4] = WriteEv(Rep6(3))

C2_Witness ==
    /\ command \in StreamData
    /\ gm_pc = "done"
    /\ Len(io) = 3

\* C3: when a call of a single-shot command is over, it has written the command's
\* opcode (six times repeated) exactly k + 1 times and nothing else, and
\* error_count has grown by exactly k, k being the number of acknowledgments
\* other than 0x08 it read; while the call runs error_count has grown by the
\* number of such acknowledgments read so far.
C3_RetriesCounted ==
    (command \in SingleShot /\ gm_pc \in InCall \cup {"done"}) =>
        /\ error_count = err0 + Cardinality(BadAckIdx)
        /\ \A i \in WriteIdx : io[i].data = Rep6(Opcode(command))
        /\ gm_pc = "done" =>
                /\ Cardinality(WriteIdx) = Cardinality(BadAckIdx) + 1
                /\ Cardinality(GoodAckIdx) = 1
                /\ io[Len(io)].op = "read_ack" /\ io[Len(io)].data = <<8>>

C3_Witness ==
    /\ command \in SingleShot
    /\ gm_pc = "done"
    /\ Cardinality(BadAckIdx) >= 2

\* C4: when a call of ID_METER_PROP or ID_METER_SETT is over, every write after
\* the first acknowledgment 0x08 is the continue opcode 0x08 six times, each
\* followed by a read of a chunk and of an acknowledgment, the last acknowledgment
\* is 0x07 and no earlier continuation acknowledgment is, and the value returned
\* is the payload read just before the first 0x08 followed by every chunk read
\* after it, in the order read.
C4_MultiPartAccumulates ==
    (command \in MultiPart /\ gm_pc = "done") =>
        /\ GoodAckIdx # {}
        /\ LET g == FirstGoodAck IN
            /\ io[g - 1].op = "read_payload"
            /\ ret = <<io[g - 1].data>> \o ChunksFrom(g + 1)
            /\ Len(io) > g
            /\ \A i \in (g + 1)..Len(io) :
                /\ io[i].op = "write" =>
                        /\ io[i].data = Rep6(8)
                        /\ io[i + 1].op = "read_payload"
                        /\ io[i + 1].n = number_of_bytes_dict[qry]
                        /\ io[i + 2].op = "read_ack"
                /\ io[i].op = "read_ack" => (io[i].data = <<7>> <=> i = Len(io))
            /\ \A i \in 1..(g - 1) : io[i].op = "write" =>
                        io[i].data = Rep6(Opcode(command))

C4_Witness ==
    /\ command \in MultiPart
    /\ gm_pc = "done"
    /\ Len(ret) >= 3
    /\ Cardinality(BadAckIdx \cap 1..FirstGoodAck) >= 1

\* C5: a call of query with a command that is none of the keys of the four
\* commands ends by raising (KeyError) with no transport operation done and
\* error_count as it was; a call with one of the keys does not raise.
C5_UnknownCommandRejected ==
    /\ (gm_pc # "idle" /\ command \notin ClosedSet) =>
            /\ gm_pc = "raised"
            /\ ret = "KeyError"
            /\ io = << >>
            /\ error_count = err0
    /\ (gm_pc # "idle" /\ command \in ClosedSet) => gm_pc # "raised"

C5_Witness ==
    /\ gm_pc = "raised"
    /\ command = "FF"
    /\ error_count > 0

\* C6 (stated by C6_OnlyTheAckEnds below): a running call leaves its loops only to return, and only in the step that
\* reads the acknowledgment it waits for (0x08 for a single-shot command; 0x07,
\* after a 0x08, for a multi-part one), whatever the number of cycles so far;
\* the step that reads that acknowledgment does end the call.
C6_Step ==
    gm_pc \in InCall =>
        /\ gm_pc' \in InCall \cup {"done"}
        /\ gm_pc' = "done" =>
                /\ gm_pc \in {"ack", "cack"}
                /\ io' = Append(io, AckEv(IF command \in SingleShot THEN <<8>> ELSE <<7>>))
                /\ command \in MultiPart => GoodAckIdx # {}
        /\ (gm_pc = "ack" /\ command \in SingleShot /\ ack' = <<8>>) => gm_pc' = "done"
        /\ (gm_pc = "cack" /\ ack' = <<7>>) => gm_pc' = "done"

C6_OnlyTheAckEnds == [][C6_Step]_vars

C6_Witness ==
    /\ gm_pc = "cwrite"
    /\ error_count - err0 >= 2
    /\ ContRetries >= 2


(***************************************************************************)
(* Properties of the decoder                                               *)
(***************************************************************************)
Returned == dec_pc \in {"returned", "returned_t0"}

\* the function that ran, on other bytes
Decoded(bytes) ==
    IF dec_pc = "returned_t0" THEN get_instantenous_data_t0(bytes)
    ELSE get_instantenous_data(bytes)

SectionOf(i) == SubSeq(payload, 6 * (i - 1) + 1, 6 * i)

\* C7, as claimed: a payload whose length is not a multiple of 6 makes the decoder
\* fail with MisalignedPayload and return no measurement vector.
C7_Original ==
    (Returned /\ Len(payload) % 6 # 0) =>
        /\ out.exc = "MisalignedPayload"
        /\ out.value = << >>

\* C7, amended: for a payload whose length is not a multiple of 6 the decoder does
\* not fail: it returns Len \div 6 samples, those of the payload without its last
\* Len % 6 bytes.
C7_TrailingBytesIgnored ==
    (Returned /\ Len(payload) % 6 # 0) =>
        /\ out.exc = None
        /\ Len(out.value) = Len(payload) \div 6
        /\ out.value = Decoded(SubSeq(payload, 1, 6 * (Len(payload) \div 6)))

C7_Witness ==
    /\ dec_pc = "returned"
    /\ Len(payload) = 7
    /\ Len(out.value) = 1

\* C8: for a payload whose length is a multiple of 6 the decoder returns exactly
\* Len / 6 samples, and sample i is what the decoder returns for bytes
\* 6(i-1)+1 .. 6i of the payload alone.
C8_OneSamplePerSection ==
    (Returned /\ Len(payload) % 6 = 0) =>
        /\ out.exc = None
        /\ Len(out.value) = Len(payload) \div 6
        /\ \A i \in 1..(Len(payload) \div 6) :
                <<out.value[i]>> = Decoded(SectionOf(i))

C8_Witness ==
    /\ dec_pc = "returned"
    /\ Len(payload) = 12
    /\ out.value[1] # out.value[2]

TenTo == <<1, 10, 100, 1000, 10000, 100000, 1000000, 10000000>>

\* C9: of the six bytes b0..b5 of a section, the sample has num = sign * digits
\* with sign = -1 iff bit 0x08 of b1 is set and digits = b2 b3 b4 b5 big-endian,
\* and den = 10 ^ (b1 AND 0x07); b0 and the upper four bits of b1 change nothing;
\* the section 02 00 00 00 00 64 gives +100 with exponent 0.
C9_SectionLayout ==
    Returned =>
        /\ \A i \in 1..Len(out.value) :
            LET b == SectionOf(i) IN
                /\ out.value[i].num =
                        (IF (b[2] \div 8) % 2 = 1 THEN -1 ELSE 1)
                            * (16777216 * b[3] + 65536 * b[4] + 256 * b[5] + b[6])
                /\ out.value[i].den = TenTo[(b[2] % 8) + 1]
                /\ <<out.value[i]>> = Decoded(<<0, b[2] % 16, b[3], b[4], b[5], b[6]>>)
        /\ payload = <<2, 0, 0, 0, 0, 100>> => out.value = <<[num |-> 100, den |-> 1]>>

C9_Witness ==
    /\ dec_pc = "returned_t0"
    /\ Len(payload) = 6
    /\ payload[1] = 255
    /\ payload[2] = 250
    /\ out.value[1].num < 0
    /\ out.value[1].den = 100


(***************************************************************************)
(* Properties of the SPD3303X power supply                                 *)
(***************************************************************************)
\* C10 (stated by C10_OutOfRangeLimitRejected below): a step that sets the voltage
\* limit of channel 1 or 2 to a value above the hardware maximum the supply holds
\* (MAX_voltage_limit, 32 V from construction), or to a value <= 0, changes no
\* voltage limit, sends nothing to the instrument, raises nothing and prints that
\* the limit is not allowed.
C10_Step ==
    (/\ ps_last'.op = "voltage_limit"
     /\ ps_last'.arg > MAX_voltage_limit \/ ps_last'.arg <= 0) =>
        /\ ch_voltage_limit' = ch_voltage_limit
        /\ ps_last'.printed = "limit is not allowed by the power supply"
        /\ ps_last'.raised = None
        /\ ps_last'.sent = << >>

\* C10: every step is a C10_Step: an out-of-range voltage limit is rejected and
\* no voltage limit changes.
C10_OutOfRangeLimitRejected == [][C10_Step]_vars

C10_Witness ==
    /\ ps_last.op = "voltage_limit"
    /\ ps_last.ch = 2
    /\ ps_last.arg = V(40)
    /\ ps_last.printed = "limit is not allowed by the power supply"
    /\ MAX_voltage_limit = V(32)
    /\ ch_voltage_limit[2] = V(20)
    /\ dev_voltage[2] = V(10)


(***************************************************************************)
(* Properties of the oven                                                  *)
(***************************************************************************)
SetVoltageRequests == {i \in 1..Len(sink) : sink[i].ev = "set_set_voltage"}

\* C1: every voltage that update_supply hands to the power supply is at most
\* min(heater.MAX_volts, the voltage limit of the selected channel when it is
\* handed over).
C1_SinkWithinLimits ==
    \A i \in SetVoltageRequests :
        sink[i].val <= Min(heater.MAX_volts, sink[i].limit)

(***************************************************************************)
(* Properties of the SPD3303X power supply: the limit and set-point checks *)
(***************************************************************************)
\* a request for a voltage limit inside (0, MAX_voltage_limit], made on an open
\* socket, and the outcome res of the setter
InRangeLimitRequest(res) ==
    /\ res.op = "voltage_limit"
    /\ socket_up
    /\ res.arg > 0
    /\ res.arg <= MAX_voltage_limit

C11_Step ==
    (/\ InRangeLimitRequest(ps_last')
     /\ ps_last'.arg < dev_voltage[ps_last'.ch]) =>
        /\ ch_voltage_limit' = ch_voltage_limit
        /\ ps_last'.printed = "limit is lower than present value"
        /\ ps_last'.raised = None

\* C11: every step that asks for a voltage limit in (0, hardware maximum] below
\* the live set voltage of that channel is rejected with the "lower than present
\* voltage" result (BelowLiveSetpoint), raises nothing, and changes no limit.
C11_BelowLiveSetpointRejected == [][C11_Step]_vars

C12_Step ==
    (/\ InRangeLimitRequest(ps_last')
     /\ ps_last'.arg >= dev_voltage[ps_last'.ch]) =>
        /\ ch_voltage_limit' = [ch_voltage_limit EXCEPT ![ps_last'.ch] = ps_last'.arg]
        /\ ch_current_limit' = ch_current_limit

\* C12: every step that asks for a voltage limit with live set voltage <= volts <=
\* hardware maximum and volts > 0 sets the voltage limit of the addressed channel
\* to volts and changes no other voltage limit and no current limit.
C12_AcceptedLimitSetsOwnChannel == [][C12_Step]_vars


C13_Step ==
    ps_last'.op = "set_voltage" =>
        LET ch == ps_last'.ch
            volts == ps_last'.arg
        IN  /\ ps_last'.raised = None
            /\ volts > ch_voltage_limit[ch] =>
                    /\ ps_last'.sent = << >>
                    /\ dev_voltage' = dev_voltage
            /\ volts <= ch_voltage_limit[ch] =>
                    /\ Len(ps_last'.sent) <= 1
                    /\ socket_up =>
                        /\ ps_last'.sent = <<Cmd("voltage", ch, volts)>>
                        /\ dev_voltage' = [dev_voltage EXCEPT ![ch] = volts]

\* C13: a step that sets the set voltage of a channel raises nothing; with volts
\* above the channel's voltage limit it sends nothing and leaves the live set
\* voltages as they are; with volts <= limit it sends, on an open socket, exactly
\* the one command 'CHn:voltage volts' for that channel, which becomes its live
\* set voltage.
C13_SetVoltageAboveLimitIsNoOp == [][C13_Step]_vars

C13_Witness ==
    /\ ps_last.op = "set_voltage"
    /\ ps_last.ch = 2
    /\ ps_last.arg = V(40)
    /\ ch_voltage_limit[2] = V(32)
    /\ ps_last.sent = << >>
    /\ ps_last.printed = "CH2 voltage not set"
    /\ dev_voltage[2] = V(10)

\* C14: in every state reachable from construction, for every channel: live set
\* voltage <= channel voltage limit <= 32 V, and live set current <= channel
\* current limit <= 3.3 A.
C14_LimitsOrdered ==
    \A ch \in {1, 2} :
        /\ dev_voltage[ch] <= ch_voltage_limit[ch]
        /\ ch_voltage_limit[ch] <= V(32)
        /\ dev_current[ch] <= ch_current_limit[ch]
        /\ ch_current_limit[ch] <= 330

(***************************************************************************)
(* Properties of the oven: the setpoint and the PID sample period          *)
(***************************************************************************)
C15_Step ==
    \A temp \in SetTemps :
        set_temperature(temp) =>
            /\ IF temp > heater.MAX_temp
               THEN /\ sink' = <<[ev |-> "raise", val |-> "ValueError"]>>
                    /\ pid' = pid
               ELSE /\ sink' = << >>
                    /\ pid'.setpoint = temp
                    /\ \A f \in DOMAIN pid \ {"setpoint"} : pid'[f] = pid[f]
            /\ UNCHANGED <<heater, supply_channel, now, ps_vars>>

sample_period == 2

\* the value an update_supply step returns
Returned_by_tick == sink'[3].val

\* C16, as claimed: of two steps of the PID less than sample_period apart the
\* second returns the output of the first and leaves the integral, the last
\* input and the last sample time as they were.
C16_OriginalStep ==
    \A temp \in Temps :
        (/\ update_supply(temp)
         /\ Len(sink) = 3
         /\ now - sink[1].at < sample_period) =>
            /\ Returned_by_tick = sink[3].val
            /\ pid'.integral = pid.integral
            /\ pid'.last_input = pid.last_input
            /\ pid'.last_time = pid.last_time

C16_Original == [][C16_OriginalStep]_vars

C16_Step ==
    \A temp \in Temps :
        update_supply(temp) =>
            LET dt == now - pid.last_time
                error == pid.setpoint - temp
            IN  /\ (pid.last_output # << >> /\ dt < sample_period) =>
                        /\ Returned_by_tick = pid.last_output[1]
                        /\ pid' = pid
                /\ (pid.last_output = << >> \/ dt >= sample_period) =>
                        /\ pid'.last_time = now
                        /\ pid'.last_input = <<temp>>
                        /\ pid'.integral =
                                clamp(pid.integral + 3 * error * dt, 0, pid.out_max)
                        /\ Returned_by_tick =
                                clamp(100 * error + pid'.integral, 0, pid.out_max)
                        /\ pid'.last_output = <<Returned_by_tick>>

\* C16, amended: a step of the PID made less than sample_period after the last
\* accepted sample, once an output exists, returns the output of that sample and
\* leaves the whole PID state as it was; a step made when sample_period has
\* elapsed since the last accepted sample, or before any output exists, takes the
\* sample: it sets the last sample time and last input, moves the integral by
\* Ki * error * dt and returns the recomputed, clamped output.
C16_SamplePeriodFromLastAccepted == [][C16_Step]_vars

\* a step that was held back: the temperature it read is not the last input
C16_Witness ==
    /\ Len(sink) = 3
    /\ pid.last_input # << >>
    /\ sink[1].val # pid.last_input[1]
    /\ sink[1].at = pid.last_time + 1
    /\ sink[3].val = pid.last_output[1]
    /\ pid.setpoint = 50

(***************************************************************************)
(* Properties of the SPD3303X power supply: what the caller is told        *)
(***************************************************************************)
\* C17: when the transport fails during an exchange of the power supply (the
\* attempt is what prints 'ERROR: Socket not found'), the failure reaches the
\* caller of the operation as an error.
C17_TransportFailureSurfaced ==
    ps_last.printed = "ERROR: Socket not found" => ps_last.raised = "OSError"

\* a request that the limits forbid, and its outcome res: a set value above the
\* channel's limit, a limit outside (0, hardware maximum], or a limit below the
\* live set value the instrument reports
Forbidden(res) ==
    \/ res.op = "set_voltage" /\ res.arg > ch_voltage_limit[res.ch]
    \/ res.op = "set_current" /\ res.arg > ch_current_limit[res.ch]
    \/ /\ res.op = "voltage_limit"
       /\ \/ res.arg > MAX_voltage_limit
          \/ res.arg <= 0
          \/ socket_up /\ res.arg < dev_voltage[res.ch]
    \/ /\ res.op = "current_limit"
       /\ \/ res.arg > MAX_current_limit
          \/ res.arg <= 0
          \/ socket_up /\ res.arg < dev_current[res.ch]

C19_Step ==
    Forbidden(ps_last') =>
        /\ UNCHANGED <<ch_voltage_limit, ch_current_limit, dev_voltage, dev_current>>
        /\ ps_last'.raised = None
        /\ ps_last'.printed \notin {None, "ERROR: Socket not found"}

\* C19: every step that makes a forbidden limit or set-point request leaves the
\* limits and the live set values as they were, raises nothing (non-fatal), and
\* tells its caller so by a message that is neither that of a success (none) nor
\* that of a transport failure.
C19_RejectionDistinguishable == [][C19_Step]_vars

(***************************************************************************)
(* Properties of GM3.command and of the module's error counter             *)
(***************************************************************************)
KillCallOver == gm_pc \in {"kdone", "kraised"} /\ command \in DOMAIN cmd_dict

OneKillWrite ==
    /\ Len(io) = 1
    /\ io[1].op \in {"write", "write_failed"}
    /\ io[1].data = Rep6(255)

\* C18, as claimed: a kill_all_processes call makes exactly one write of six 0xFF
\* bytes and no read, changes no counter, returns nothing, and reports no error
\* to its caller even when the write fails.
C18_Original ==
    KillCallOver =>
        /\ OneKillWrite
        /\ error_count = err0
        /\ gm_pc = "kdone"
        /\ ret = None

\* C18, amended: a kill_all_processes call makes exactly one write of six 0xFF
\* bytes and no read, and changes no counter; it returns nothing when the write
\* succeeds, and when the write fails its exception reaches the caller.
C18_KillWritesOnce ==
    KillCallOver =>
        /\ OneKillWrite
        /\ error_count = err0
        /\ io[1].op = "write" => (gm_pc = "kdone" /\ ret = None)
        /\ io[1].op = "write_failed" => (gm_pc = "kraised" /\ ret = "SerialException")

C18_Witness ==
    /\ gm_pc = "kraised"
    /\ command = "KILL_ALL_PROCESS"
    /\ ret = "SerialException"
    /\ io = <<FailedWriteEv(Rep6(255))>>
    /\ error_count = 2

\* C20: the calls made on one gaussmeter client (every step here is a step of a
\* call on client 1) leave the ack-error count of another client unchanged.
C20_ClientsShareNothing == [][UNCHANGED error_count_of(2)]_vars

(***************************************************************************)
(* Properties of the SPD3303X power supply: the current limits             *)
(***************************************************************************)
C21_Step ==
    ps_last'.op = "current_limit" =>
        LET ch == ps_last'.ch
            amps == ps_last'.arg
        IN  /\ (amps > 330 \/ amps <= 0) =>
                    /\ ch_current_limit' = ch_current_limit
                    /\ ps_last'.printed = "limit is not allowed by the power supply"
            /\ (amps <= 330 /\ amps > 0 /\ socket_up /\ amps < dev_current[ch]) =>
                    /\ ch_current_limit' = ch_current_limit
                    /\ ps_last'.printed = "limit is lower than present value"
                    /\ ps_last'.raised = None
            /\ (amps <= 330 /\ amps > 0 /\ socket_up /\ amps >= dev_current[ch]) =>
                    /\ ch_current_limit' = [ch_current_limit EXCEPT ![ch] = amps]
                    /\ ps_last'.raised = None

\* C21: every step that asks for a current limit of a channel is rejected, with no
\* limit changed, when amps > 3.3 A or amps <= 0, is rejected in the same way
\* when amps is below the live set current of that channel, and otherwise sets
\* the current limit of that channel to amps.
C21_CurrentLimitRule == [][C21_Step]_vars

(***************************************************************************)
(* Properties of GM3.query: the shape of a cycle and the order of a call   *)
(***************************************************************************)
\* the payload length of a command
NBytes(c) ==
    IF c \in IdentifyProperties \cup IdentifySettings THEN 20
    ELSE IF c \in StreamData THEN 30
    ELSE 31

\* C22: the transport operations of a call of query come in cycles of three: a
\* write of 6 bytes that are one byte six times, a read of exactly N payload
\* bytes, a read of exactly 1 acknowledgment byte, where N is 20 for
\* ID_METER_PROP and ID_METER_SETT, 30 for STREAM_DATA and 31 for RESET_TIME,
\* in every cycle of the call; a call that is over has made whole cycles only.
C22_CycleShape ==
    command \in ClosedSet =>
        /\ \A i \in 1..Len(io) :
            /\ i % 3 = 1 =>
                    /\ io[i].op = "write"
                    /\ io[i].n = 6
                    /\ \E b \in 0..255 : io[i].data = Rep6(b)
            /\ i % 3 = 2 =>
                    /\ io[i].op = "read_payload"
                    /\ io[i].n = NBytes(command)
                    /\ io[i].data.len = NBytes(command)
            /\ i % 3 = 0 =>
                    /\ io[i].op = "read_ack"
                    /\ io[i].n = 1
                    /\ Len(io[i].data) = 1
        /\ gm_pc = "done" => (Len(io) >= 3 /\ Len(io) % 3 = 0)

C22_Witness ==
    /\ command \in ResetTime
    /\ gm_pc = "done"
    /\ Len(io) = 9
    /\ io[8].n = 31
    /\ io[3].data = <<7>>

\* the writes of the running call made after it read an acknowledgment 0x08
WritesAfterGoodAck == {i \in WriteIdx : \E j \in GoodAckIdx : j < i}

C23_Order ==
    command \in ClosedSet =>
        /\ \A i \in WriteIdx \ WritesAfterGoodAck : io[i].data = Rep6(Opcode(command))
        /\ \A i \in WritesAfterGoodAck : io[i].data = Rep6(8)
        /\ command \in SingleShot => WritesAfterGoodAck = {}
        /\ gm_pc \in FirstPhase <=> GoodAckIdx = {}
        /\ gm_pc \in {"cwrite", "cread", "cack"} =>
                (command \in MultiPart /\ GoodAckIdx # {})
        /\ gm_pc = "done" => GoodAckIdx # {}

C23_Step ==
    /\ C23_Order
    /\ gm_pc = "done" => (gm_pc' = "idle" /\ io' = << >>)

\* C23: a call of query is in its first phase until it has read an acknowledgment
\* 0x08; until then every write is the command's opcode, after it every write is
\* the continue opcode 0x08 (the command's opcode is not written again); a
\* single-shot command writes nothing after that acknowledgment and only a
\* multi-part command enters the continuation phase; once the call is over the
\* only step left is its return, which does no transport operation.
C23_StateMachine == [][C23_Step]_vars

C23_Witness ==
    /\ command \in IdentifySettings
    /\ gm_pc = "done"
    /\ Cardinality(WritesAfterGoodAck) = 2
    /\ Cardinality(WriteIdx \ WritesAfterGoodAck) = 2

(***************************************************************************)
(* Properties of the oven: the PID bounds and the order of a tick          *)
(***************************************************************************)
\* C24: in every reachable state the output bounds of the oven's PID are 0 and
\* min(heater.MAX_volts, the voltage limit of the selected supply channel as it
\* is in that state).
C24_BoundsTrackLimit ==
    /\ pid.out_min = 0
    /\ pid.out_max = Min(heater.MAX_volts, get_voltage_limit(supply_channel))

C25_Step ==
    \A temp \in Temps :
        update_supply(temp) =>
            /\ Len(sink') = 3
            /\ sink'[1].ev = "get_temp" /\ sink'[1].val = temp
            /\ pid' = pid_step(pid, sink'[1].val, now)
            /\ sink'[2].ev = "set_set_voltage"
            /\ sink'[2].ch = supply_channel
            /\ sink'[2].val = pid'.last_output[1]
            /\ sink'[3].ev = "return"
            /\ sink'[3].val = sink'[2].val
            /\ dev_voltage' = set_set_voltage(supply_channel, sink'[2].val)

\* C25: an update_supply step does three things in this order: one reading of the
\* temperature, one step of the PID on that reading, one set-voltage request to
\* the selected supply channel carrying the output of that step; it returns that
\* same value.
C25_TickOrder == [][C25_Step]_vars

C25_Witness ==
    /\ Len(sink) = 3
    /\ sink[1].val = 20
    /\ sink[2].val = V(20)
    /\ sink[3].val = V(20)
    /\ sink[2].ch = 2
    /\ pid.last_input = <<20>>
    /\ dev_voltage[2] = V(20)

ReadIdx == {i \in 1..Len(io) : io[i].op = "read_payload"}

\* C27: a call of a single-shot command that has retried returns exactly the
\* payload read in the one cycle whose acknowledgment was 0x08: one chunk, the
\* one read just before that acknowledgment, and none of the chunks read in the
\* cycles whose acknowledgment was not 0x08; while the call runs it holds at
\* most the chunk read last.
C27_FailedPayloadsDiscarded ==
    (command \in SingleShot /\ gm_pc \in InCall \cup {"done"}) =>
        /\ Len(r) <= 1
        /\ ReadIdx # {} => r = <<io[CHOOSE i \in ReadIdx : \A j \in ReadIdx : j <= i].data>>
        /\ gm_pc = "done" =>
            LET g == FirstGoodAck IN
                /\ GoodAckIdx = {g}
                /\ io[g - 1].op = "read_payload"
                /\ ret = <<io[g - 1].data>>
                /\ \A i \in ReadIdx : i < g - 1 =>
                        /\ io[i + 1].op = "read_ack" /\ io[i + 1].data # <<8>>
                        /\ \A k \in 1..Len(ret) : ret[k] # io[i].data

C27_Witness ==
    /\ command \in SingleShot
    /\ gm_pc = "done"
    /\ Cardinality(ReadIdx) = 3
    /\ ret = <<Chunk(3, number_of_bytes_dict[qry])>>

\* the acknowledgments and the chunks read by the running call after its first
\* acknowledgment 0x08: the continuation cycles
ContAckIdx == {i \in AckIdx : i > FirstGoodAck}
ContReadIdx == {i \in ReadIdx : i > FirstGoodAck}

\* C28: in the second loop of a multi-part command every acknowledgment other
\* than 0x07, 0x08 or not, is followed by another write of the continue opcode;
\* the chunk read in each cycle is appended to the result whatever the
\* acknowledgment that follows it; error_count does not grow in this loop; the
\* value returned has 1 + (number of continuation cycles) chunks of N bytes each.
C28_ContinuationPhase ==
    (command \in MultiPart /\ gm_pc \in {"cwrite", "cread", "cack", "done"}) =>
        LET g == FirstGoodAck
            N == number_of_bytes_dict[qry]
        IN  /\ GoodAckIdx # {}
            /\ error_count = err0 + Cardinality({i \in BadAckIdx : i < g})
            /\ \A i \in ContAckIdx : io[i].data # <<7>> =>
                    /\ i = Len(io) => gm_pc = "cwrite"
                    /\ i < Len(io) => io[i + 1] = WriteEv(Rep6(8))
            /\ Len(r) = 1 + Cardinality(ContReadIdx)
            /\ \A i \in ContReadIdx : \E k \in 2..Len(r) : r[k] = io[i].data
            /\ \A k \in 1..Len(r) : r[k].len = N
            /\ gm_pc = "done" =>
                    /\ ret = r
                    /\ Cardinality(ContReadIdx) = Cardinality(ContAckIdx)
                    /\ Len(ret) = 1 + Cardinality(ContAckIdx)

C28_Witness ==
    /\ command \in MultiPart
    /\ gm_pc = "done"
    /\ Cardinality(ContAckIdx) = 3
    /\ \E i \in ContAckIdx : io[i].data = <<8>>
    /\ \E i \in ContAckIdx : io[i].data = <<0>>
    /\ Len(ret) = 4
    /\ error_count = err0

(***************************************************************************)
(* Properties of the MCC_Device                                            *)
(***************************************************************************)
MccSetters == {"board_number", "ip4_address", "port"}

\* C29 (stated by C29_IdentityFrozenWhileConnected below): while is_connected
\* holds, an assignment to board_number, ip4_address or port raises
\* (AttributeError) and leaves the three as they were; while it does not hold,
\* the assignment gives the attribute the new value, without raising, and
\* leaves the other two; a disconnect that returns leaves is_connected false;
\* only connect and disconnect change is_connected.
C29_Step ==
    /\ (is_connected /\ mcc_last'.op \in MccSetters) =>
            /\ mcc_last'.raised = "AttributeError"
            /\ UNCHANGED <<board_number, ip4_address, port>>
    /\ (~is_connected /\ mcc_last'.op \in MccSetters) =>
            /\ mcc_last'.raised = None
            /\ mcc_last'.op = "board_number" =>
                    board_number' = mcc_last'.arg /\ UNCHANGED <<ip4_address, port>>
            /\ mcc_last'.op = "ip4_address" =>
                    ip4_address' = mcc_last'.arg /\ UNCHANGED <<board_number, port>>
            /\ mcc_last'.op = "port" =>
                    port' = mcc_last'.arg /\ UNCHANGED <<board_number, ip4_address>>
    /\ (mcc_last'.op = "disconnect" /\ mcc_last'.raised = None) => ~is_connected'
    /\ is_connected' # is_connected => mcc_last'.op \in {"connect", "disconnect"}

C29_IdentityFrozenWhileConnected == [][C29_Step]_vars

C29_Witness ==
    /\ is_connected
    /\ mcc_last = McResult("port", <<49152>>, "AttributeError")
    /\ port = <<54211>>
    /\ board_number = 1
    /\ ip4_address = "192.168.0.3"

(***************************************************************************)
(* Properties of the PowerSupply MAX limits                                *)
(***************************************************************************)
\* C30 (stated by C30_MAXSettersFrame below): an assignment to
\* MAX_current_limit makes MAX_current_limit the value assigned and leaves
\* MAX_voltage_limit and the channel limits (and their number) as they were; an
\* assignment to MAX_voltage_limit makes MAX_voltage_limit the value assigned
\* and leaves MAX_current_limit and the channel limits as they were.
C30_Step ==
    /\ ps_last'.op = "MAX_current_limit" =>
            /\ MAX_current_limit' = ps_last'.arg
            /\ UNCHANGED <<MAX_voltage_limit, ch_voltage_limit, ch_current_limit>>
    /\ ps_last'.op = "MAX_voltage_limit" =>
            /\ MAX_voltage_limit' = ps_last'.arg
            /\ UNCHANGED <<MAX_current_limit, ch_voltage_limit, ch_current_limit>>

C30_MAXSettersFrame == [][C30_Step]_vars

====
